---------------------------- MODULE Spec2Model ----------------------------
(***************************************************************************)
(* Variable-dependency graph: the Neo4j store filled by loader.py and the  *)
(* analysis queries of analyzer.py.                                        *)
(*                                                                         *)
(* The store is the list of Variable nodes and the list of DEPENDS_ON      *)
(* relationships, both in creation order.  A Cypher variable-length        *)
(* pattern -[:DEPENDS_ON*]-> matches every walk that uses no relationship  *)
(* twice (a trail); nodes may repeat on it.                                *)
(***************************************************************************)
EXTENDS Integers, Sequences, FiniteSets, TLC

\* ------------------------------------------------------------- inputs and bounds
NameOrder == <<"a", "b", "c">>      \* the variable names, in ascending order
Names == {NameOrder[i] : i \in DOMAIN NameOrder}
Files == {"f1", "f2"}
MaxEdges == 5                       \* relationships of an analysed snapshot
MaxStoreEdges == 2                  \* relationships the store holds while loads run
LoadNames == {"a", "b"}             \* the names the loaded files mention
MaxPathEdges == 6                   \* relationships of a snapshot searched for paths
MaxStatements == 2                  \* statements of a parsed file

\* ------------------------------------------------------------- state
VARIABLES
    nodes,      \* store: names of the Variable nodes, in creation order
    edges,      \* store: DEPENDS_ON relationships [from, to, line, file], in creation order
    pc,         \* position of the load request: "idle", "cleared", "dir"
    pending,    \* load_from_directory: the matched files still to process
    total,      \* load_from_directory: total_relationships so far
    skipped,    \* load_from_directory: the files skipped so far, as the warnings name them
    result      \* what the last operation returned to its caller

vars == <<nodes, edges, pc, pending, total, skipped, result>>

\* ------------------------------------------------------------- helpers
Range(s) == {s[i] : i \in DOMAIN s}
InSeq(x, s) == \E i \in DOMAIN s : s[i] = x
Min(x, y) == IF x <= y THEN x ELSE y
Rank(n) == CHOOSE i \in DOMAIN NameOrder : NameOrder[i] = n
Perms(S) == {p \in [1..Cardinality(S) -> S] : \A i, j \in DOMAIN p : p[i] = p[j] => i = j}

RECURSIVE Flatten(_)
Flatten(ss) == IF ss = <<>> THEN <<>> ELSE Head(ss) \o Flatten(Tail(ss))


\* ------------------------------------------------------------- Cypher matching
\* The trails that continue `trail` (a list of relationship ids ending at node
\* `last`) by at least one relationship, shortest first along each branch; the
\* next relationship is looked for among ids i..Len(E).
RECURSIVE TrailsFrom(_, _, _, _)
TrailsFrom(E, trail, last, i) ==
    IF i > Len(E) THEN <<>>
    ELSE (IF E[i].from = last /\ ~InSeq(i, trail)
          THEN <<Append(trail, i)>> \o TrailsFrom(E, Append(trail, i), E[i].to, 1)
          ELSE <<>>)
         \o TrailsFrom(E, trail, last, i + 1)

\* every match of (s)-[:DEPENDS_ON*]->() starting at node s
VarLengthPaths(E, s) == TrailsFrom(E, <<>>, s, 1)

PathEnd(E, s, trail) == IF trail = <<>> THEN s ELSE E[trail[Len(trail)]].to

\* [n in nodes(path) | n.name]
PathNames(E, s, trail) == <<s>> \o [k \in 1..Len(trail) |-> E[trail[k]].to]

\* The order in which the store returns the rows of a query without ORDER BY is
\* not specified.  It is modelled by the order `scan` in which the store visits
\* its nodes: relationships are taken by start node, then by end node, in that
\* order.
ScanOrder(E, scan) ==
    Flatten([i \in 1..Len(scan) |->
        Flatten([j \in 1..Len(scan) |->
            SelectSeq(E, LAMBDA e : e.from = scan[i] /\ e.to = scan[j])])])

\* rows of  MATCH path = (start)-[:DEPENDS_ON*]->(start) WHERE length(path) > 0
\* RETURN [n in nodes(path) | n.name] LIMIT 100
CycleLimit == 100
CycleRowsFull(E, scan) ==
    LET S == ScanOrder(E, scan) IN
    Flatten([k \in 1..Len(scan) |->
        LET s == scan[k]
            closed == SelectSeq(VarLengthPaths(S, s), LAMBDA t : PathEnd(S, s, t) = s)
        IN [j \in 1..Len(closed) |-> PathNames(S, s, closed[j])]])
CycleRows(E, scan) ==
    LET rows == CycleRowsFull(E, scan)
    IN SubSeq(rows, 1, Min(CycleLimit, Len(rows)))

\* rows of  MATCH (a:Variable)-[:DEPENDS_ON]->(b:Variable) RETURN a.name, b.name
EdgeRows(E, scan) ==
    LET S == ScanOrder(E, scan)
    IN [k \in DOMAIN S |-> <<S[k].from, S[k].to>>]

\* ------------------------------------------------------------- detect_cycles
\* the loop over one record of the path query: the names of the path without
\* repetitions, appended when the first name comes round again
RECURSIVE ScanCycle(_, _, _)
ScanCycle(cycle, k, unique_cycle) ==
    IF k > Len(cycle) THEN <<>>
    ELSE LET var == cycle[k] IN
         IF ~InSeq(var, unique_cycle)
         THEN ScanCycle(cycle, k + 1, Append(unique_cycle, var))
         ELSE IF var = unique_cycle[1] /\ Len(unique_cycle) > 1
              THEN <<unique_cycle>>
              ELSE ScanCycle(cycle, k + 1, unique_cycle)

PathCycles(rows) == Flatten([k \in 1..Len(rows) |-> ScanCycle(rows[k], 1, <<>>)])

\* graph = defaultdict(list): the keys in insertion order, graph[v] in row order
GraphKeys(rows) ==
    LET first == SelectSeq([k \in 1..Len(rows) |-> k],
                           LAMBDA k : \A j \in 1..(k - 1) : rows[j][1] # rows[k][1])
    IN [i \in 1..Len(first) |-> rows[first[i]][1]]
Adjacent(rows, v) ==
    LET out == SelectSeq(rows, LAMBDA r : r[1] = v)
    IN [j \in 1..Len(out) |-> out[j][2]]

\* mutant of PopComponent: a component of one node is kept too
RECURSIVE PopComponentKeepsSingle(_, _, _)
PopComponentKeepsSingle(st, component, v) ==
    LET w == st.stack[Len(st.stack)]
        st1 == [st EXCEPT !.stack = SubSeq(st.stack, 1, Len(st.stack) - 1),
                          !.on_stack = st.on_stack \ {w}]
        comp1 == Append(component, w)
    IN IF w = v
       THEN [st1 EXCEPT !.cycles = Append(st1.cycles, comp1)]
       ELSE PopComponentKeepsSingle(st1, comp1, v)

\* while True: w = stack.pop() ... if w == v: break
RECURSIVE PopComponent(_, _, _)
PopComponent(st, component, v) ==
    LET w == st.stack[Len(st.stack)]
        st1 == [st EXCEPT !.stack = SubSeq(st.stack, 1, Len(st.stack) - 1),
                          !.on_stack = st.on_stack \ {w}]
        comp1 == Append(component, w)
    IN IF w = v
       THEN IF Len(comp1) > 1 THEN [st1 EXCEPT !.cycles = Append(st1.cycles, comp1)]
                              ELSE st1
       ELSE PopComponent(st1, comp1, v)

RECURSIVE strongconnect(_, _, _), VisitSuccessors(_, _, _, _)
strongconnect(rows, st, v) ==
    LET st1 == [st EXCEPT !.index = (v :> st.index_counter) @@ st.index,
                          !.lowlink = (v :> st.index_counter) @@ st.lowlink,
                          !.index_counter = st.index_counter + 1,
                          !.stack = Append(st.stack, v),
                          !.on_stack = st.on_stack \cup {v}]
        st2 == VisitSuccessors(rows, st1, v, 1)
    IN IF st2.lowlink[v] = st2.index[v] THEN PopComponent(st2, <<>>, v) ELSE st2
VisitSuccessors(rows, st, v, k) ==
    LET adj == Adjacent(rows, v) IN
    IF k > Len(adj) THEN st
    ELSE LET w == adj[k] IN
         IF w \notin DOMAIN st.index
         THEN LET st1 == strongconnect(rows, st, w)
              IN VisitSuccessors(rows,
                     [st1 EXCEPT !.lowlink[v] = Min(st1.lowlink[v], st1.lowlink[w])],
                     v, k + 1)
         ELSE IF w \in st.on_stack
              THEN VisitSuccessors(rows,
                       [st EXCEPT !.lowlink[v] = Min(st.lowlink[v], st.index[w])],
                       v, k + 1)
              ELSE VisitSuccessors(rows, st, v, k + 1)

RECURSIVE TarjanLoop(_, _, _, _)
TarjanLoop(rows, keys, st, k) ==
    IF k > Len(keys) THEN st
    ELSE IF keys[k] \notin DOMAIN st.index
         THEN TarjanLoop(rows, keys, strongconnect(rows, st, keys[k]), k + 1)
         ELSE TarjanLoop(rows, keys, st, k + 1)

_tarjan_cycles(rows) ==
    TarjanLoop(rows, GraphKeys(rows),
               [index |-> <<>>, lowlink |-> <<>>, stack |-> <<>>, on_stack |-> {},
                cycles |-> <<>>, index_counter |-> 0], 1).cycles

\* tuple(sorted(cycle)) of a list of distinct names
RECURSIVE SortNames(_)
SortNames(S) ==
    IF S = {} THEN <<>>
    ELSE LET m == CHOOSE x \in S : \A y \in S : Rank(x) <= Rank(y)
         IN <<m>> \o SortNames(S \ {m})
\* mutant of CycleKey: the tuple is taken without sorting
CycleKeyUnsorted(cycle) == cycle
CycleKey(cycle) == SortNames(Range(cycle))

\* unique_cycles: a cycle is kept when no earlier one has the same sorted tuple
UniqueCycles(cycles) ==
    LET kept == SelectSeq([k \in 1..Len(cycles) |-> k],
                    LAMBDA k : \A j \in 1..(k - 1) : CycleKey(cycles[j]) # CycleKey(cycles[k]))
    IN [i \in 1..Len(kept) |-> cycles[kept[i]]]


\* ------------------------------------------------------------- find_impact, find_dependencies
\* mutant of ReachRows: the paths that come back to `start` are counted too
ReachRowsWithStart(N, E, start) ==
    IF ~InSeq(start, N) THEN {}
    ELSE LET paths == VarLengthPaths(E, start)
         IN {<<PathEnd(E, start, paths[k]), Len(paths[k])>> : k \in DOMAIN paths}

\* DISTINCT (name, length(path)) over the paths that leave `start` and end at
\* another node; no row when no node is named `start`
ReachRows(N, E, start) ==
    IF ~InSeq(start, N) THEN {}
    ELSE LET paths == VarLengthPaths(E, start)
         IN {<<PathEnd(E, start, paths[k]), Len(paths[k])>> :
                k \in {j \in DOMAIN paths : PathEnd(E, start, paths[j]) # start}}

\* ORDER BY depth, name
RowLe(r, q) == r[2] < q[2] \/ (r[2] = q[2] /\ Rank(r[1]) <= Rank(q[1]))
RECURSIVE OrderRows(_)
OrderRows(S) ==
    IF S = {} THEN <<>>
    ELSE LET m == CHOOSE x \in S : \A y \in S : RowLe(x, y)
         IN <<m>> \o OrderRows(S \ {m})

\* {record[name]: record[depth] for record in records}: a later record of the
\* same name replaces the value of an earlier one
DepthDict(records) ==
    [n \in {records[k][1] : k \in DOMAIN records} |->
        records[CHOOSE k \in DOMAIN records :
                    /\ records[k][1] = n
                    /\ \A j \in DOMAIN records : records[j][1] = n => j <= k][2]]

\* the keys of the dict, in insertion order
DictKeys(records) ==
    LET first == SelectSeq([k \in 1..Len(records) |-> k],
                     LAMBDA k : \A j \in 1..(k - 1) : records[j][1] # records[k][1])
    IN [i \in 1..Len(first) |-> records[first[i]][1]]

\* the relationships read backwards: (dependent)-[:DEPENDS_ON*]->(start)
Reversed(E) == [k \in DOMAIN E |-> [E[k] EXCEPT !.from = E[k].to, !.to = E[k].from]]

find_dependencies(N, E, variable_name) ==
    LET records == OrderRows(ReachRows(N, E, variable_name))
        deps == [k \in DOMAIN records |-> records[k][1]]
        depths == DepthDict(records)
        keys == DictKeys(records)
    IN [op |-> "find_dependencies",
        raised |-> "none",
        variable |-> variable_name,
        direct_dependencies |-> SelectSeq(keys, LAMBDA v : depths[v] = 1),
        transitive_dependencies |-> SelectSeq(keys, LAMBDA v : depths[v] > 1),
        total_dependencies |-> Len(deps),
        all_dependencies |-> deps,
        depths |-> depths]

find_impact(N, E, variable_name) ==
    LET records == OrderRows(ReachRows(N, Reversed(E), variable_name))
        affected == [k \in DOMAIN records |-> records[k][1]]
        depths == DepthDict(records)
        keys == DictKeys(records)
    IN [op |-> "find_impact",
        raised |-> "none",
        variable |-> variable_name,
        directly_affected |-> SelectSeq(keys, LAMBDA v : depths[v] = 1),
        transitively_affected |-> SelectSeq(keys, LAMBDA v : depths[v] > 1),
        total_affected |-> Len(affected),
        affected_variables |-> affected,
        depths |-> depths]

\* cycles of the path pass, then those of the component pass, then the
\* duplicates removed; `scan` is the order in which the store scans its nodes
detect_cycles(E, scan) ==
    LET found == PathCycles(CycleRows(E, scan))
        tarjan == _tarjan_cycles(EdgeRows(E, scan))
        cycles == found \o tarjan
    IN [op |-> "detect_cycles",
        raised |-> "none",
        path_cycles |-> found,
        tarjan_cycles |-> tarjan,
        cycles |-> UniqueCycles(cycles)]


\* ------------------------------------------------------------- find_path
\* mutant of PathRows: a path may not come back to its start
PathRowsOpenOnly(E, scan, from_var, to_var) ==
    LET S == ScanOrder(E, scan)
    IN SelectSeq(VarLengthPaths(S, from_var),
                 LAMBDA t : PathEnd(S, from_var, t) = to_var /\ from_var # to_var)

\* matches of  (start {name: $from_var})-[:DEPENDS_ON*]->(end {name: $to_var})
PathRows(E, scan, from_var, to_var) ==
    LET S == ScanOrder(E, scan)
    IN SelectSeq(VarLengthPaths(S, from_var), LAMBDA t : PathEnd(S, from_var, t) = to_var)

\* mutant of OrderByLength: the rows as they were matched
MatchOrder(E, trails) == trails

\* ORDER BY length(path): rows of one length stay in the order of the match
OrderByLength(E, trails) ==
    Flatten([n \in 1..Len(E) |-> SelectSeq(trails, LAMBDA t : Len(t) = n)])

\* LIMIT 20
PathLimit == 20

find_path(E, scan, from_var, to_var) ==
    LET S == ScanOrder(E, scan)
        rows == OrderByLength(S, PathRows(E, scan, from_var, to_var))
        kept == SubSeq(rows, 1, Min(PathLimit, Len(rows)))
    IN [op |-> "find_path",
        raised |-> "none",
        from_var |-> from_var,
        to_var |-> to_var,
        paths |-> [k \in DOMAIN kept |-> PathNames(S, from_var, kept[k])]]

\* ------------------------------------------------------------- get_critical_path
\* count of the relationships that end, or start, at node v
InDegree(E, v) == Len(SelectSeq(E, LAMBDA e : e.to = v))
OutDegree(E, v) == Len(SelectSeq(E, LAMBDA e : e.from = v))

\* matches of  (start)-[:DEPENDS_ON*]->(end)
\* WHERE NOT (start)<-[:DEPENDS_ON]-() AND NOT (end)-[:DEPENDS_ON]->()
CriticalRows(E, scan) ==
    LET S == ScanOrder(E, scan) IN
    Flatten([k \in 1..Len(scan) |->
        LET start == scan[k]
            found == IF InDegree(S, start) = 0
                     THEN SelectSeq(VarLengthPaths(S, start),
                                    LAMBDA t : OutDegree(S, PathEnd(S, start, t)) = 0)
                     ELSE <<>>
        IN [j \in 1..Len(found) |-> PathNames(S, start, found[j])]])

\* ORDER BY length(path) DESC: rows of one length stay in the order of the match
OrderByLengthDesc(E, rows) ==
    Flatten([n \in 1..Len(E) |->
        SelectSeq(rows, LAMBDA r : Len(r) = (Len(E) - n + 1) + 1)])

get_critical_path(E, scan) ==
    LET records == OrderByLengthDesc(E, CriticalRows(E, scan))
    IN [op |-> "get_critical_path",
        raised |-> "none",
        path |-> IF records # <<>> THEN records[1] ELSE <<>>]

\* ------------------------------------------------------------- get_metrics
\* the keys of `queries`, in the order of the loop
MetricKeys == <<"total_variables", "total_dependencies", "most_dependent",
                "most_dependencies", "isolated_variables", "root_variables",
                "leaf_variables">>

\* ORDER BY count DESC: rows of one count stay in the order of the store
OrderByCountDesc(E, rows) ==
    Flatten([n \in 1..Len(E) |->
        SelectSeq(rows, LAMBDA r : r[2] = Len(E) - n + 1)])

\* LIMIT 10
LeaderLimit == 10

\* MATCH (v)<-[:DEPENDS_ON]-(dependent) WITH v, count(dependent) as count
\* RETURN v.name, count ORDER BY count DESC LIMIT 10
MostDependent(E, scan) ==
    LET matched == SelectSeq(scan, LAMBDA v : InDegree(E, v) >= 1)
        rows == OrderByCountDesc(E, [k \in DOMAIN matched |-> <<matched[k], InDegree(E, matched[k])>>])
    IN SubSeq(rows, 1, Min(LeaderLimit, Len(rows)))

\* MATCH (v)-[:DEPENDS_ON]->(dep) WITH v, count(dep) as count ...
MostDependencies(E, scan) ==
    LET matched == SelectSeq(scan, LAMBDA v : OutDegree(E, v) >= 1)
        rows == OrderByCountDesc(E, [k \in DOMAIN matched |-> <<matched[k], OutDegree(E, matched[k])>>])
    IN SubSeq(rows, 1, Min(LeaderLimit, Len(rows)))

\* MATCH (v) WHERE NOT (v)-[:DEPENDS_ON]-()
IsolatedVariables(E, scan) ==
    SelectSeq(scan, LAMBDA v : InDegree(E, v) = 0 /\ OutDegree(E, v) = 0)

\* mutant of RootVariables: a relationship from the node itself is not counted
RootVariablesBesidesSelf(E, scan) ==
    SelectSeq(scan, LAMBDA v : \A k \in DOMAIN E : E[k].to = v => E[k].from = v)

\* MATCH (v) WHERE NOT (v)<-[:DEPENDS_ON]-()
RootVariables(E, scan) == SelectSeq(scan, LAMBDA v : InDegree(E, v) = 0)

\* MATCH (v) WHERE NOT (v)-[:DEPENDS_ON]->()
LeafVariables(E, scan) == SelectSeq(scan, LAMBDA v : OutDegree(E, v) = 0)

\* metrics[key]: what the query gives, or the default of the except branch when
\* the store fails on this query
MetricValue(key, failed, value, default) == IF key = failed THEN default ELSE value

\* get_metrics; `failed` is the query on which the store fails ("none" when it
\* answers all of them): the caller is handed the dictionary `metrics`, or the
\* exception when the failing query is the one of detect_cycles
get_metrics(N, E, scan, failed) ==
    IF failed = "detect_cycles"
    THEN [op |-> "get_metrics", raised |-> "Exception", store_failed |-> failed]
    ELSE LET cycles == detect_cycles(E, scan).cycles IN
         [op |-> "get_metrics",
          raised |-> "none",
          store_failed |-> failed,
          metrics |->
            [total_variables |-> MetricValue("total_variables", failed, Len(N), 0),
             total_dependencies |-> MetricValue("total_dependencies", failed, Len(E), 0),
             most_dependent |-> MetricValue("most_dependent", failed, MostDependent(E, scan), <<>>),
             most_dependencies |-> MetricValue("most_dependencies", failed, MostDependencies(E, scan), <<>>),
             isolated_variables |-> MetricValue("isolated_variables", failed, IsolatedVariables(E, scan), <<>>),
             root_variables |-> MetricValue("root_variables", failed, RootVariables(E, scan), <<>>),
             leaf_variables |-> MetricValue("leaf_variables", failed, LeafVariables(E, scan), <<>>),
             circular_dependencies |-> Len(cycles),
             cycles |-> cycles]]

\* ------------------------------------------------------------- parser
\* A parsed file is the list of its statements.  A statement takes two lines:
\* statement k starts on line 2k - 1.  An expression is the list of the names it
\* reads (ctx Load) in the order in which ast.NodeVisitor reaches them, each with
\* the line it stands on, counted from the first line of the statement.
Lineno(k) == 2 * k - 1

\* target nodes
NameNode(n) == [type |-> "Name", id |-> n, elts |-> <<>>]
AttributeNode == [type |-> "Attribute", id |-> "", elts |-> <<>>]
TupleTarget(elts) == [type |-> "Tuple", id |-> "", elts |-> elts]

\* value nodes: an expression on one line, and a tuple display of expressions
OneLine(names) ==
    [type |-> "Expr", reads |-> [k \in DOMAIN names |-> [id |-> names[k], off |-> 0]], elts |-> <<>>]
TupleValue(elts) == [type |-> "Tuple", reads |-> <<>>, elts |-> elts]
\* `n +` newline `n`: the operands of a binary operation, left to right
BinOpTwoLines(n) ==
    [type |-> "Expr", reads |-> <<[id |-> n, off |-> 0], [id |-> n, off |-> 1]>>, elts |-> <<>>]
\* `n` newline `if n else 0`: ast.IfExp lists its test before its body
IfExpTwoLines(n) ==
    [type |-> "Expr", reads |-> <<[id |-> n, off |-> 1], [id |-> n, off |-> 0]>>, elts |-> <<>>]

\* the names a value reads, in the order of generic_visit
Loads(value) ==
    IF value.type = "Tuple"
    THEN Flatten([k \in DOMAIN value.elts |-> value.elts[k].reads])
    ELSE value.reads

\* visit_Name on a name of ctx Load
visit_Name(current_assign_target, node, base, filepath) ==
    IF current_assign_target # "None"
    THEN <<(<<current_assign_target, node.id, base + node.off, filepath>>)>>
    ELSE <<>>

\* self.visit(value) while current_assign_target is set
visit(current_assign_target, value, base, filepath) ==
    Flatten([k \in DOMAIN Loads(value) |->
        visit_Name(current_assign_target, Loads(value)[k], base, filepath)])

visit_Assign(node, base, filepath) ==
    IF Len(node.targets) = 1 /\ node.targets[1].type = "Name"
    THEN visit(node.targets[1].id, node.value, base, filepath)
    ELSE IF Len(node.targets) = 1 /\ node.targets[1].type = "Tuple"
    THEN LET target_tuple == node.targets[1].elts IN
         IF node.value.type = "Tuple"
         THEN Flatten([k \in 1..Min(Len(target_tuple), Len(node.value.elts)) |->
                  IF target_tuple[k].type = "Name"
                  THEN visit(target_tuple[k].id, node.value.elts[k], base, filepath)
                  ELSE <<>>])
         ELSE Flatten([k \in DOMAIN target_tuple |->
                  IF target_tuple[k].type = "Name"
                  THEN visit(target_tuple[k].id, node.value, base, filepath)
                  ELSE <<>>])
    ELSE <<>>

\* mutant of visit_AugAssign: no self-dependency is recorded
visit_AugAssignReadsOnly(node, base, filepath) ==
    IF node.targets[1].type = "Name"
    THEN visit(node.targets[1].id, node.value, base, filepath)
    ELSE <<>>

visit_AugAssign(node, base, filepath) ==
    IF node.targets[1].type = "Name"
    THEN LET assigned_var == node.targets[1].id IN
         <<(<<assigned_var, assigned_var, base, filepath>>)>>
             \o visit(assigned_var, node.value, base, filepath)
    ELSE <<>>

\* finder.visit(tree): the statements in order; a statement that is no
\* assignment is walked with no current_assign_target
VisitStatement(node, base, filepath) ==
    IF node.kind = "Assign" THEN visit_Assign(node, base, filepath)
    ELSE IF node.kind = "AugAssign" THEN visit_AugAssign(node, base, filepath)
    ELSE visit("None", node.value, base, filepath)

Dependencies(body, filepath) ==
    Flatten([k \in DOMAIN body |-> VisitStatement(body[k], Lineno(k), filepath)])

\* mutant of UniqueDeps: of the tuples of one pair the last is kept
UniqueDepsKeepLast(dependencies) ==
    LET kept == SelectSeq([i \in DOMAIN dependencies |-> i],
                    LAMBDA i : \A j \in (i + 1)..Len(dependencies) :
                        <<dependencies[j][1], dependencies[j][2]>>
                            # <<dependencies[i][1], dependencies[i][2]>>)
    IN [k \in DOMAIN kept |-> dependencies[kept[k]]]

\* the loop over finder.dependencies: of the tuples of one (assigned_var,
\* used_var) key the first is kept
UniqueDeps(dependencies) ==
    LET kept == SelectSeq([i \in DOMAIN dependencies |-> i],
                    LAMBDA i : \A j \in 1..(i - 1) :
                        <<dependencies[j][1], dependencies[j][2]>>
                            # <<dependencies[i][1], dependencies[i][2]>>)
    IN [k \in DOMAIN kept |-> dependencies[kept[k]]]

\* find_variable_deps on a file that exists and parses
find_variable_deps(filepath, body) ==
    LET dependencies == Dependencies(body, filepath)
    IN [op |-> "find_variable_deps",
        raised |-> "none",
        filepath |-> filepath,
        body |-> body,
        dependencies |-> dependencies,
        unique_deps |-> UniqueDeps(dependencies)]

\* the statements of the parsed files
ParseNames == {"a", "b"}
Values == {OneLine(<<>>), OneLine(<<"a">>), OneLine(<<"b">>), OneLine(<<"a", "b">>),
           BinOpTwoLines("b"), IfExpTwoLines("b")}
Statement(kind, targets, value) == [kind |-> kind, targets |-> targets, value |-> value]
Statements ==
    {Statement(kind, <<NameNode(n)>>, value) :
        kind \in {"Assign", "AugAssign"}, n \in ParseNames, value \in Values}
    \cup {Statement(kind, <<AttributeNode>>, OneLine(<<"a">>)) : kind \in {"Assign", "AugAssign"}}
    \cup {Statement("Assign", <<NameNode("a"), NameNode("b")>>, OneLine(<<"b">>)),
          Statement("Assign", <<NameNode("a")>>, TupleValue(<<OneLine(<<"b">>), OneLine(<<"b">>)>>)),
          Statement("Assign", <<TupleTarget(<<NameNode("a"), NameNode("b")>>)>>,
                    TupleValue(<<OneLine(<<"b">>), OneLine(<<"a">>)>>)),
          Statement("Assign", <<TupleTarget(<<NameNode("a"), AttributeNode>>)>>,
                    TupleValue(<<OneLine(<<"b">>), OneLine(<<"a">>)>>)),
          Statement("Assign", <<TupleTarget(<<NameNode("a"), NameNode("b")>>)>>, OneLine(<<"a">>)),
          Statement("Expr", <<>>, OneLine(<<"a">>))}
RECURSIVE Bodies(_)
Bodies(n) ==
    IF n = 0 THEN {<<>>}
    ELSE LET shorter == Bodies(n - 1)
         IN shorter \cup {Append(body, st) : body \in {b \in shorter : Len(b) = n - 1},
                                             st \in Statements}

\* ------------------------------------------------------------- loader
\* the lists of at most n distinct elements of S
RECURSIVE DistinctSeqs(_, _)
DistinctSeqs(S, n) ==
    IF n = 0 THEN {<<>>}
    ELSE LET shorter == DistinctSeqs(S, n - 1)
         IN shorter \cup
            UNION {{Append(s, x) : x \in S \ Range(s)} :
                       s \in {t \in shorter : Len(t) = n - 1}}

\* what find_variable_deps returns for a file: (assigned_var, used_var) pairs,
\* each at most once, with the line of its first occurrence and the file
Relationships(f, deps) ==
    [k \in DOMAIN deps |-> [from |-> deps[k][1], to |-> deps[k][2], line |-> k, file |-> f]]

\* MERGE (a:Variable {name: ...})
MergeNode(N, name) == IF InSeq(name, N) THEN N ELSE Append(N, name)

\* mutant of MergeRelationship: CREATE in place of MERGE
CreateRelationship(E, row) == Append(E, row)

\* mutant of MergeRelationship: SET on every match, the last write wins
MergeRelationshipOverwrites(E, row) ==
    IF \E k \in DOMAIN E : E[k].from = row.from /\ E[k].to = row.to
    THEN [k \in DOMAIN E |->
              IF E[k].from = row.from /\ E[k].to = row.to THEN row ELSE E[k]]
    ELSE Append(E, row)

\* MERGE (a)-[r:DEPENDS_ON]->(b) ON CREATE SET r.line_number, r.filepath
MergeRelationship(E, row) ==
    IF \E k \in DOMAIN E : E[k].from = row.from /\ E[k].to = row.to
    THEN E
    ELSE Append(E, row)

\* UNWIND $data as row MERGE ... : one transaction, the rows in order
RECURSIVE _batch_create_relationships(_, _, _)
_batch_create_relationships(N, E, relationships) ==
    IF relationships = <<>> THEN [nodes |-> N, edges |-> E]
    ELSE LET row == Head(relationships)
         IN _batch_create_relationships(
                MergeNode(MergeNode(N, row.from), row.to),
                MergeRelationship(E, row),
                Tail(relationships))

\* the store after load_from_file has parsed `deps` out of file f
load_from_file(N, E, f, deps) ==
    IF deps # <<>>
    THEN _batch_create_relationships(N, E, Relationships(f, deps))
    ELSE [nodes |-> N, edges |-> E]

NoResult == [op |-> "none", raised |-> "none"]
\* a loaded file holds at most one statement for each of its names
LoadDeps == DistinctSeqs(LoadNames \X LoadNames, Cardinality(LoadNames))
\* the snapshots to analyse: at most MaxEdges pairs, listed in name order
RECURSIVE SortPairs(_)
SortPairs(S) ==
    IF S = {} THEN <<>>
    ELSE LET m == CHOOSE x \in S : \A y \in S :
                      \/ Rank(x[1]) < Rank(y[1])
                      \/ (x[1] = y[1] /\ Rank(x[2]) <= Rank(y[2]))
         IN <<m>> \o SortPairs(S \ {m})
SnapshotDeps == {SortPairs(S) : S \in {T \in SUBSET (Names \X Names) : Cardinality(T) <= MaxEdges}}

\* the snapshots searched for paths: at most MaxPathEdges pairs
PathDeps == {SortPairs(S) : S \in {T \in SUBSET (Names \X Names) : Cardinality(T) <= MaxPathEdges}}

\* ------------------------------------------------------------- actions
\* mutant of ClearDatabase: the relationships are deleted, the nodes stay
ClearRelationshipsOnly ==
    /\ pc = "idle"
    /\ nodes' = nodes
    /\ edges' = <<>>
    /\ pc' = "cleared"
    /\ result' = [op |-> "clear_database", raised |-> "none"]
    /\ UNCHANGED <<pending, total, skipped>>

\* clear_database, the first step of a load request
ClearDatabase ==
    /\ pc = "idle"
    /\ nodes' = <<>>
    /\ edges' = <<>>
    /\ pc' = "cleared"
    /\ result' = [op |-> "clear_database", raised |-> "none"]
    /\ UNCHANGED <<pending, total, skipped>>

\* mutant of PathNotFound: the path is examined before the store is cleared
PathNotFoundBeforeClear ==
    /\ pc = "idle"
    /\ pc' = "idle"
    /\ result' = [op |-> "load_files", raised |-> "none", message |-> "Path not found"]
    /\ UNCHANGED <<nodes, edges, pending, total, skipped>>

\* the load request names neither a file nor a directory
PathNotFound ==
    /\ pc = "cleared"
    /\ pc' = "idle"
    /\ result' = [op |-> "load_files", raised |-> "none", message |-> "Path not found"]
    /\ UNCHANGED <<nodes, edges, pending, total, skipped>>

\* load_from_file, after clear_database or on its own; `created` is the number of
\* relationships the store reports as created by the transaction
LoadFromFile(f, deps) ==
    /\ pc \in {"idle", "cleared"}
    /\ LET store == load_from_file(nodes, edges, f, deps) IN
        /\ Len(store.edges) <= MaxStoreEdges
        /\ nodes' = store.nodes
        /\ edges' = store.edges
    /\ pc' = "idle"
    /\ result' = [op |-> "load_from_file", raised |-> "none", file |-> f,
                  count |-> Len(deps),
                  created |-> Len(edges') - Len(edges)]
    /\ UNCHANGED <<pending, total, skipped>>

\* load_from_file when the file is missing or unparseable, or the store refuses
\* the transaction: the exception reaches the caller and nothing is stored
LoadFromFileRaises(f) ==
    /\ pc \in {"idle", "cleared"}
    /\ pc' = "idle"
    /\ result' = [op |-> "load_from_file", raised |-> "Exception", file |-> f]
    /\ UNCHANGED <<nodes, edges, pending, total, skipped>>

\* load_from_directory: python_files = glob.glob(...)
LoadFromDirectory(python_files) ==
    /\ pc \in {"idle", "cleared"}
    /\ pc' = "dir"
    /\ pending' = python_files
    /\ total' = 0
    /\ skipped' = <<>>
    /\ result' = NoResult
    /\ UNCHANGED <<nodes, edges>>

\* one turn of the loop: count = self.load_from_file(filepath)
DirectoryFile(deps) ==
    /\ pc = "dir"
    /\ pending # <<>>
    /\ LET store == load_from_file(nodes, edges, Head(pending), deps) IN
        /\ Len(store.edges) <= MaxStoreEdges
        /\ nodes' = store.nodes
        /\ edges' = store.edges
    /\ total' = total + Len(deps)
    /\ pending' = Tail(pending)
    /\ UNCHANGED <<pc, skipped, result>>

\* mutant of DirectoryFileSkipped: the exception of load_from_file leaves the loop
DirectoryFileAborts ==
    /\ pc = "dir"
    /\ pending # <<>>
    /\ pc' = "idle"
    /\ pending' = <<>>
    /\ total' = 0
    /\ skipped' = <<>>
    /\ result' = [op |-> "load_from_directory", raised |-> "Exception"]
    /\ UNCHANGED <<nodes, edges>>

\* one turn of the loop: load_from_file raised, the file is skipped
DirectoryFileSkipped ==
    /\ pc = "dir"
    /\ pending # <<>>
    /\ skipped' = Append(skipped, Head(pending))
    /\ pending' = Tail(pending)
    /\ UNCHANGED <<nodes, edges, pc, total, result>>

\* return total_relationships
DirectoryDone ==
    /\ pc = "dir"
    /\ pending = <<>>
    /\ pc' = "idle"
    /\ total' = 0
    /\ skipped' = <<>>
    /\ result' = [op |-> "load_from_directory", raised |-> "none", count |-> total]
    /\ UNCHANGED <<nodes, edges, pending>>

\* the analysis queries: they read the store as it is, whatever the loader does
DetectCycles ==
    /\ \E scan \in Perms(Range(nodes)) : result' = detect_cycles(edges, scan)
    /\ UNCHANGED <<nodes, edges, pc, pending, total, skipped>>

FindImpact(v) ==
    /\ result' = find_impact(nodes, edges, v)
    /\ UNCHANGED <<nodes, edges, pc, pending, total, skipped>>

FindDependencies(v) ==
    /\ result' = find_dependencies(nodes, edges, v)
    /\ UNCHANGED <<nodes, edges, pc, pending, total, skipped>>

GetCriticalPath ==
    /\ \E scan \in Perms(Range(nodes)) : result' = get_critical_path(edges, scan)
    /\ UNCHANGED <<nodes, edges, pc, pending, total, skipped>>

GetMetrics(failed) ==
    /\ \E scan \in Perms(Range(nodes)) : result' = get_metrics(nodes, edges, scan, failed)
    /\ UNCHANGED <<nodes, edges, pc, pending, total, skipped>>

FindPath(from_var, to_var) ==
    /\ \E scan \in Perms(Range(nodes)) : result' = find_path(edges, scan, from_var, to_var)
    /\ UNCHANGED <<nodes, edges, pc, pending, total, skipped>>

\* find_variable_deps(filepath)
FindVariableDeps(filepath, body) ==
    /\ result' = find_variable_deps(filepath, body)
    /\ UNCHANGED <<nodes, edges, pc, pending, total, skipped>>

\* find_variable_deps on a file that is missing, unreadable or does not parse
FindVariableDepsRaises(filepath) ==
    /\ result' = [op |-> "find_variable_deps", raised |-> "Exception", filepath |-> filepath]
    /\ UNCHANGED <<nodes, edges, pc, pending, total, skipped>>

\* ------------------------------------------------------------- specifications
\* the loader and the analyzer share one store, empty at first
Init ==
    /\ nodes = <<>>
    /\ edges = <<>>
    /\ pc = "idle"
    /\ pending = <<>>
    /\ total = 0
    /\ skipped = <<>>
    /\ result = NoResult

\* The load request interleaved with the cycle and reachability queries.  The
\* other analyses read the store in the same way and keep nothing between two
\* calls: they are applied to snapshots of the store (SpecQuery, SpecPath,
\* SpecMetrics), and the parser to files (SpecParse).
Next ==
    \/ ClearDatabase
    \/ PathNotFound
    \/ \E f \in Files, deps \in LoadDeps : LoadFromFile(f, deps)
    \/ \E f \in Files : LoadFromFileRaises(f)
    \/ \E python_files \in DistinctSeqs(Files, Cardinality(Files)) :
           LoadFromDirectory(python_files)
    \/ \E deps \in LoadDeps : DirectoryFile(deps)
    \/ DirectoryFileSkipped
    \/ DirectoryDone
    \/ DetectCycles
    \/ \E v \in Names : FindImpact(v)
    \/ \E v \in Names : FindDependencies(v)

Spec == Init /\ [][Next]_vars

\* the loader alone
NextLoad ==
    \/ ClearDatabase
    \/ PathNotFound
    \/ \E f \in Files, deps \in LoadDeps : LoadFromFile(f, deps)
    \/ \E f \in Files : LoadFromFileRaises(f)
    \/ \E python_files \in DistinctSeqs(Files, Cardinality(Files)) :
           LoadFromDirectory(python_files)
    \/ \E deps \in LoadDeps : DirectoryFile(deps)
    \/ DirectoryFileSkipped
    \/ DirectoryDone

SpecLoad == Init /\ [][NextLoad]_vars

\* the analyzer alone, on the snapshot one load of one file has left
InitQuery ==
    /\ \E deps \in SnapshotDeps :
          LET store == load_from_file(<<>>, <<>>, "f1", deps) IN
            /\ nodes = store.nodes
            /\ edges = store.edges
    /\ pc = "idle"
    /\ pending = <<>>
    /\ total = 0
    /\ skipped = <<>>
    /\ result = NoResult

NextQuery ==
    \/ DetectCycles
    \/ \E v \in Names : FindImpact(v)
    \/ \E v \in Names : FindDependencies(v)
    \/ GetCriticalPath

SpecQuery == InitQuery /\ [][NextQuery]_vars


\* find_path asked of a snapshot; the analyzer keeps nothing between two calls,
\* so each snapshot is asked one question
InitPath ==
    /\ \E deps \in PathDeps :
          LET store == load_from_file(<<>>, <<>>, "f1", deps) IN
            /\ nodes = store.nodes
            /\ edges = store.edges
    /\ pc = "idle"
    /\ pending = <<>>
    /\ total = 0
    /\ skipped = <<>>
    /\ result = NoResult

NextPath == \E from_var, to_var \in Names : result = NoResult /\ FindPath(from_var, to_var)

SpecPath == InitPath /\ [][NextPath]_vars

\* get_metrics asked of a snapshot, the store failing on at most one query
NextMetrics ==
    \E failed \in Range(MetricKeys) \cup {"none", "detect_cycles"} :
        result = NoResult /\ GetMetrics(failed)

SpecMetrics == InitQuery /\ [][NextMetrics]_vars

\* the parser applied to one file
NextParse ==
    \/ \E filepath \in Files :
          result = NoResult /\ \E body \in Bodies(MaxStatements) : FindVariableDeps(filepath, body)
    \/ \E filepath \in Files : result = NoResult /\ FindVariableDepsRaises(filepath)

SpecParse == Init /\ [][NextParse]_vars

\* ------------------------------------------------------------- the graph of the store
HasEdge(u, v) == \E k \in DOMAIN edges : edges[k].from = u /\ edges[k].to = v

\* the nodes a walk of exactly k edges leads to from v
RECURSIVE WalkEnds(_, _)
WalkEnds(v, k) ==
    IF k = 0 THEN {v}
    ELSE LET before == WalkEnds(v, k - 1)
         IN {w \in Names : \E x \in before : HasEdge(x, w)}

\* u is reached from v along at least one edge
Reaches(v, u) == \E k \in 1..Cardinality(Names) : u \in WalkEnds(v, k)

\* the number of edges of a shortest path from v to u
Distance(v, u) == CHOOSE k \in 1..Cardinality(Names) :
                      /\ u \in WalkEnds(v, k)
                      /\ \A j \in 1..(k - 1) : u \notin WalkEnds(v, j)

\* the strongly connected component of v
Component(v) == {v} \cup {u \in Names : Reaches(v, u) /\ Reaches(u, v)}
Components == {Component(v) : v \in Range(nodes)}
LargeComponents == {S \in Components : Cardinality(S) >= 2}

NameSets(cycles) == {Range(cycles[k]) : k \in DOMAIN cycles}

\* ------------------------------------------------------------- claims
\* C1: the components _tarjan_cycles returns are exactly the strongly connected
\* components of two or more nodes, each once and with exactly its member names,
\* and detect_cycles returns for each of them a cycle with that set of names.
C1_TarjanComponents ==
    result.op = "detect_cycles" =>
        /\ NameSets(result.tarjan_cycles) = LargeComponents
        /\ Len(result.tarjan_cycles) = Cardinality(LargeComponents)
        /\ \A k \in DOMAIN result.tarjan_cycles :
               Len(result.tarjan_cycles[k]) = Cardinality(Range(result.tarjan_cycles[k]))
        /\ LargeComponents \subseteq NameSets(result.cycles)

\* C1 witness: detect_cycles has run on a graph whose three nodes form one component,
\* entered from a node that is not the first one of the scan
C1_Witness ==
    /\ result.op = "detect_cycles"
    /\ Len(result.tarjan_cycles) = 1
    /\ Range(result.tarjan_cycles[1]) = Names

\* C2: a graph with a self-loop edge (v,v) makes detect_cycles return [v].
C2_SelfLoopReported ==
    result.op = "detect_cycles" =>
        \A k \in DOMAIN edges :
            edges[k].from = edges[k].to => InSeq(<<edges[k].from>>, result.cycles)

\* C3: depths[u] of find_dependencies(v) is the number of edges of a shortest path
\* from v to u, and depths[u] of find_impact(v) that of a shortest path from u to v.
C3_ShortestDepth ==
    /\ result.op = "find_dependencies" =>
           \A u \in Names \ {result.variable} :
               Reaches(result.variable, u) =>
                   /\ u \in DOMAIN result.depths
                   /\ result.depths[u] = Distance(result.variable, u)
    /\ result.op = "find_impact" =>
           \A u \in Names \ {result.variable} :
               Reaches(u, result.variable) =>
                   /\ u \in DOMAIN result.depths
                   /\ result.depths[u] = Distance(u, result.variable)

\* C4: the direct list is exactly the other nodes with an edge from v (to v, for
\* find_impact), the transitive list exactly the other reachable nodes, and the
\* two lists are disjoint.
C4_DirectAndTransitive ==
    /\ result.op = "find_dependencies" =>
           LET v == result.variable
               direct == {u \in Names \ {v} : HasEdge(v, u)}
               others == {u \in Names \ {v} : Reaches(v, u)} \ direct
           IN /\ Range(result.direct_dependencies) = direct
              /\ Range(result.transitive_dependencies) = others
              /\ Range(result.direct_dependencies)
                     \cap Range(result.transitive_dependencies) = {}
    /\ result.op = "find_impact" =>
           LET v == result.variable
               direct == {u \in Names \ {v} : HasEdge(u, v)}
               others == {u \in Names \ {v} : Reaches(u, v)} \ direct
           IN /\ Range(result.directly_affected) = direct
              /\ Range(result.transitively_affected) = others
              /\ Range(result.directly_affected)
                     \cap Range(result.transitively_affected) = {}

\* C5: v is in no list and not in the depth map of find_dependencies(v) or of
\* find_impact(v), and every other node on a cycle through v is in the result.
C5_SelfExcluded ==
    /\ result.op = "find_dependencies" =>
           LET v == result.variable IN
           /\ v \notin Range(result.direct_dependencies)
           /\ v \notin Range(result.transitive_dependencies)
           /\ v \notin Range(result.all_dependencies)
           /\ v \notin DOMAIN result.depths
           /\ \A u \in Component(v) \ {v} :
                  /\ u \in Range(result.all_dependencies)
                  /\ u \in DOMAIN result.depths
                  /\ u \in Range(result.direct_dependencies)
                            \cup Range(result.transitive_dependencies)
    /\ result.op = "find_impact" =>
           LET v == result.variable IN
           /\ v \notin Range(result.directly_affected)
           /\ v \notin Range(result.transitively_affected)
           /\ v \notin Range(result.affected_variables)
           /\ v \notin DOMAIN result.depths
           /\ \A u \in Component(v) \ {v} :
                  /\ u \in Range(result.affected_variables)
                  /\ u \in DOMAIN result.depths
                  /\ u \in Range(result.directly_affected)
                            \cup Range(result.transitively_affected)

\* C5 witness: find_impact(v) has answered for a v that carries a self-loop and
\* lies on a cycle with the two other nodes
C5_Witness ==
    /\ result.op = "find_impact"
    /\ HasEdge(result.variable, result.variable)
    /\ Component(result.variable) = Names
    /\ result.total_affected >= 2

\* C6: every cycle detect_cycles returns is a simple cycle of the graph: its names
\* are pairwise distinct, each name has an edge to the next, and the last has an
\* edge to the first.
IsSimpleCycle(c) ==
    /\ \A i, j \in DOMAIN c : c[i] = c[j] => i = j
    /\ \A i \in 1..(Len(c) - 1) : HasEdge(c[i], c[i + 1])
    /\ HasEdge(c[Len(c)], c[1])
C6_SimpleCycles ==
    result.op = "detect_cycles" =>
        \A k \in DOMAIN result.cycles : IsSimpleCycle(result.cycles[k])

\* C7: detect_cycles returns one cycle per strongly connected component: no two
\* cycles of its result have all their names inside the same component.
C7_OnePerComponent ==
    result.op = "detect_cycles" =>
        \A i, j \in DOMAIN result.cycles :
            i # j => ~\E S \in Components :
                         /\ Range(result.cycles[i]) \subseteq S
                         /\ Range(result.cycles[j]) \subseteq S

\* C8: no two cycles of the result of detect_cycles have the same set of names,
\* every set of names found by either pass is in the result, and the cycle kept
\* for a set of names is the first one found with it.
C8_DistinctNameSets ==
    result.op = "detect_cycles" =>
        LET cycles == result.path_cycles \o result.tarjan_cycles
            FirstFound(S) ==
                cycles[CHOOSE k \in DOMAIN cycles :
                           /\ Range(cycles[k]) = S
                           /\ \A j \in 1..(k - 1) : Range(cycles[j]) # S]
        IN /\ \A i, j \in DOMAIN result.cycles :
                  Range(result.cycles[i]) = Range(result.cycles[j]) => i = j
           /\ NameSets(result.cycles) = NameSets(cycles)
           /\ \A i \in DOMAIN result.cycles :
                  result.cycles[i] = FirstFound(Range(result.cycles[i]))

\* C8 witness: the two passes have found the names {a, b} in both orders, and
\* some set of names three times or more
C8_Witness ==
    /\ result.op = "detect_cycles"
    /\ InSeq(<<"a", "b">>, result.path_cycles)
    /\ InSeq(<<"b", "a">>, result.path_cycles \o result.tarjan_cycles)
    /\ Len(result.path_cycles) + Len(result.tarjan_cycles) >= Len(result.cycles) + 2

\* C9: an analysis query issued while a load is in progress, after clear_database
\* and before the last upsert of the load, fails with a not-ready error.
QueryOps == {"detect_cycles", "find_impact", "find_dependencies"}
C9_NotReadyWhileLoading ==
    (pc # "idle" /\ result.op \in QueryOps) => result.raised = "NotReadyError"

\* C10: the store holds at most one edge for every ordered pair (from, to), and
\* loading a file once more, with no clear in between, leaves the nodes and the
\* edges of the store as the first load left them.
C10_LoadIdempotent ==
    /\ \A i, j \in DOMAIN edges :
           (edges[i].from = edges[j].from /\ edges[i].to = edges[j].to) => i = j
    /\ \A f \in Files, deps \in LoadDeps :
           LET once == load_from_file(nodes, edges, f, deps)
               twice == load_from_file(once.nodes, once.edges, f, deps)
           IN /\ Range(twice.nodes) = Range(once.nodes)
              /\ Len(twice.nodes) = Len(once.nodes)
              /\ Range(twice.edges) = Range(once.edges)
              /\ Len(twice.edges) = Len(once.edges)

\* C10 witness: load_from_file has loaded a file of two dependencies into a store
\* that held exactly these two, loaded from the same file, and created nothing
C10_Witness ==
    /\ result.op = "load_from_file"
    /\ result.raised = "none"
    /\ result.count = 2
    /\ result.created = 0
    /\ Len(edges) = 2
    /\ \A k \in DOMAIN edges : edges[k].file = result.file

\* C11: between two clears a stored edge keeps the line and the file it was
\* created with, whatever later upserts of the same pair carry, and an edge
\* created by a load carries the file of that load
C11_FirstWriteWins ==
    [][pc' # "cleared" =>
        /\ \A k \in DOMAIN edges : k \in DOMAIN edges' /\ edges'[k] = edges[k]
        /\ \A k \in DOMAIN edges' \ DOMAIN edges :
              edges'[k].file = (IF pc = "dir" THEN Head(pending) ELSE result'.file)]_vars

\* a file has presented only pairs that another file had stored before
C11_Witness ==
    /\ result.op = "load_from_file"
    /\ result.raised = "none"
    /\ result.count >= 1
    /\ result.created = 0
    /\ \A k \in DOMAIN edges : edges[k].file # result.file

\* the paths of the store from one name to another, as lists of names
StorePaths(from_var, to_var) ==
    LET found == SelectSeq(VarLengthPaths(edges, from_var),
                           LAMBDA t : PathEnd(edges, from_var, t) = to_var)
    IN {PathNames(edges, from_var, found[k]) : k \in DOMAIN found}

\* C12: find_path raises nothing; its list is empty exactly when `to` is not
\* reached from `from` along at least one edge: in particular when one of the
\* names is not a node, and when from = to and no cycle passes through it; it
\* is non-empty when from = to and a cycle passes through it
C12_EmptyWhenUnreachable ==
    result.op = "find_path" =>
        /\ result.raised = "none"
        /\ (result.paths = <<>>) <=> ~Reaches(result.from_var, result.to_var)
        /\ (~InSeq(result.from_var, nodes) \/ ~InSeq(result.to_var, nodes))
              => result.paths = <<>>
        /\ (result.from_var = result.to_var /\ Reaches(result.from_var, result.from_var))
              => result.paths # <<>>

\* a path from a name back to itself is found
C12_Witness ==
    /\ result.op = "find_path"
    /\ result.from_var = result.to_var
    /\ result.paths # <<>>

\* C13: find_path returns at most 20 paths of the store; each starts with `from`,
\* ends with `to`, has at least one edge and follows an edge at every step; they
\* come in non-decreasing order of edge count, and no path left out has fewer
\* edges than a returned one
C13_ShortestFirstCapped ==
    result.op = "find_path" =>
        LET paths == result.paths IN
        /\ Len(paths) <= 20
        /\ \A k \in DOMAIN paths :
              /\ Len(paths[k]) >= 2
              /\ paths[k][1] = result.from_var
              /\ paths[k][Len(paths[k])] = result.to_var
              /\ \A i \in 1..(Len(paths[k]) - 1) : HasEdge(paths[k][i], paths[k][i + 1])
        /\ \A j, k \in DOMAIN paths : j < k => Len(paths[j]) <= Len(paths[k])
        /\ Range(paths) \subseteq StorePaths(result.from_var, result.to_var)
        /\ \A q \in StorePaths(result.from_var, result.to_var) \ Range(paths) :
              /\ Len(paths) = 20
              /\ \A k \in DOMAIN paths : Len(q) >= Len(paths[k])

\* more than 20 paths exist and 20 of them are returned
C13_Witness ==
    /\ result.op = "find_path"
    /\ Len(result.paths) = 20
    /\ Cardinality(StorePaths(result.from_var, result.to_var)) > 20

\* the store's nodes without an incoming, and without an outgoing, relationship
StoreRoots == {v \in Range(nodes) : \A u \in Names : ~HasEdge(u, v)}
StoreLeaves == {v \in Range(nodes) : \A u \in Names : ~HasEdge(v, u)}
\* the root-to-leaf paths of the store that visit no node twice
SimpleRootLeafPaths ==
    {p \in DistinctSeqs(Names, Cardinality(Names)) :
        /\ Len(p) >= 2
        /\ p[1] \in StoreRoots
        /\ p[Len(p)] \in StoreLeaves
        /\ \A i \in 1..(Len(p) - 1) : HasEdge(p[i], p[i + 1])}

\* C14: get_critical_path returns [] when no root reaches a leaf; otherwise a
\* path from a root to a leaf that visits no node twice and has at least as
\* many edges as every simple root-to-leaf path
C14_LongestSimplePath ==
    result.op = "get_critical_path" =>
        LET p == result.path IN
        IF \A r \in StoreRoots, l \in StoreLeaves : ~Reaches(r, l)
        THEN p = <<>>
        ELSE /\ p \in SimpleRootLeafPaths
             /\ \A q \in SimpleRootLeafPaths : Len(q) <= Len(p)

RECURSIVE Leaderboard(_, _)
Leaderboard(S, count) ==
    IF S = {} THEN <<>>
    ELSE LET top == CHOOSE v \in S : \A u \in S :
                        \/ count[v] > count[u]
                        \/ (count[v] = count[u] /\ Rank(v) <= Rank(u))
         IN <<(<<top, count[top]>>)>> \o Leaderboard(S \ {top}, count)
StoreInDegree == [v \in Names |-> Cardinality({u \in Names : HasEdge(u, v)})]
StoreOutDegree == [v \in Names |-> Cardinality({u \in Names : HasEdge(v, u)})]

\* C16: most_dependent is the first 10 of the nodes with an incoming edge, by
\* in-degree descending and then by name ascending, each with its in-degree (so
\* every call on one graph returns the same list); most_dependencies likewise
\* on the out-degree
C16_LeaderboardsByCountThenName ==
    (result.op = "get_metrics" /\ result.raised = "none") =>
        LET m == result.metrics
            dependents == Leaderboard({v \in Range(nodes) : StoreInDegree[v] >= 1}, StoreInDegree)
            dependencies == Leaderboard({v \in Range(nodes) : StoreOutDegree[v] >= 1}, StoreOutDegree)
        IN /\ result.store_failed # "most_dependent" =>
                m.most_dependent = SubSeq(dependents, 1, Min(10, Len(dependents)))
           /\ result.store_failed # "most_dependencies" =>
                m.most_dependencies = SubSeq(dependencies, 1, Min(10, Len(dependencies)))

\* the dictionary get_metrics hands back when the store answers every query
MetricsKeySet == Range(MetricKeys) \cup {"circular_dependencies", "cycles"}

\* C17: when the store fails on one query of get_metrics, the caller still gets
\* a result, the value of that query is its default (0 or the empty list), the
\* other values are those of the store, and the result records which query
\* failed
C17_FailureRecorded ==
    (result.op = "get_metrics" /\ result.store_failed # "none") =>
        /\ result.raised = "none"
        /\ LET m == result.metrics IN
           /\ result.store_failed = "total_variables" => m.total_variables = 0
           /\ result.store_failed = "root_variables" => m.root_variables = <<>>
           /\ result.store_failed # "total_variables" => m.total_variables = Len(nodes)
           /\ result.store_failed # "total_dependencies" => m.total_dependencies = Len(edges)
           /\ result.store_failed # "leaf_variables" => Range(m.leaf_variables) = StoreLeaves
           /\ \E key \in DOMAIN m \ MetricsKeySet : InSeq(result.store_failed, m[key])

\* C18: in load_from_directory every matched file gets its turn; a file whose
\* load fails is skipped and leaves the store and the total as they were, a
\* file that loads adds its count to the total, and the call returns the total
C18_BatchSurvivesFailure ==
    [][pc = "dir" =>
        IF pending # <<>>
        THEN /\ pc' = "dir"
             /\ pending' = Tail(pending)
             /\ IF skipped' # skipped
                THEN /\ skipped' = Append(skipped, Head(pending))
                     /\ nodes' = nodes
                     /\ edges' = edges
                     /\ total' = total
                ELSE \E deps \in LoadDeps :
                        LET store == load_from_file(nodes, edges, Head(pending), deps) IN
                        /\ nodes' = store.nodes
                        /\ edges' = store.edges
                        /\ total' = total + Len(deps)
        ELSE /\ result' = [op |-> "load_from_directory", raised |-> "none", count |-> total]
             /\ nodes' = nodes
             /\ edges' = edges]_vars

\* every file has had its turn, one was skipped and another loaded its edges
C18_Witness ==
    /\ pc = "dir"
    /\ pending = <<>>
    /\ skipped # <<>>
    /\ total >= 1
    /\ \E k \in DOMAIN edges : ~InSeq(edges[k].file, skipped)

\* the (assigned_var, used_var) pairs of a list of dependency tuples
Pairs(deps) == {<<deps[k][1], deps[k][2]>> : k \in DOMAIN deps}

\* C19: for an augmented assignment to the simple name x on the lines of
\* statement k, the output holds (x, x) and (x, n) for every name n the value
\* reads, and no tuple of these lines has another source than x
C19_AugAssignSelfLoop ==
    (result.op = "find_variable_deps" /\ result.raised = "none") =>
        \A k \in DOMAIN result.body :
            LET node == result.body[k] IN
            (node.kind = "AugAssign" /\ node.targets[1].type = "Name") =>
                LET x == node.targets[1].id IN
                /\ <<x, x>> \in Pairs(result.unique_deps)
                /\ \A i \in DOMAIN node.value.reads :
                      <<x, node.value.reads[i].id>> \in Pairs(result.unique_deps)
                /\ \A j \in DOMAIN result.unique_deps :
                      result.unique_deps[j][3] \in {Lineno(k), Lineno(k) + 1}
                          => result.unique_deps[j][1] = x

\* an augmented assignment that reads no name, and one that reads another name
C19_Witness ==
    /\ result.op = "find_variable_deps"
    /\ result.raised = "none"
    /\ \E k \in DOMAIN result.body :
          result.body[k].kind = "AugAssign" /\ result.body[k].value.reads = <<>>
             /\ result.body[k].targets[1].type = "Name"
    /\ \E k \in DOMAIN result.body :
          /\ result.body[k].kind = "AugAssign"
          /\ result.body[k].targets[1].type = "Name"
          /\ \E i \in DOMAIN result.body[k].value.reads :
                result.body[k].value.reads[i].id # result.body[k].targets[1].id

\* the first line of the file on which a tuple of the pair of d was collected
FirstLine(dependencies, d) ==
    CHOOSE l \in {dependencies[i][3] : i \in DOMAIN dependencies} :
        /\ \E i \in DOMAIN dependencies :
              dependencies[i][3] = l /\ <<dependencies[i][1], dependencies[i][2]>> = <<d[1], d[2]>>
        /\ \A i \in DOMAIN dependencies :
              <<dependencies[i][1], dependencies[i][2]>> = <<d[1], d[2]>> => l <= dependencies[i][3]

\* C20: the list find_variable_deps returns holds each pair once, holds exactly
\* the pairs the visitor collected, lists them in the order of their first
\* occurrence in the file, and gives each pair the file and the line of its
\* first occurrence in the file
C20_FirstOccurrenceKept ==
    (result.op = "find_variable_deps" /\ result.raised = "none") =>
        LET out == result.unique_deps
            collected == result.dependencies
        IN /\ \A j, k \in DOMAIN out :
                  <<out[j][1], out[j][2]>> = <<out[k][1], out[k][2]>> => j = k
           /\ Pairs(out) = Pairs(collected)
           /\ \A k \in DOMAIN out :
                  /\ out[k][4] = result.filepath
                  /\ out[k][3] = FirstLine(collected, out[k])
           /\ \A j, k \in DOMAIN out : j < k => out[j][3] <= out[k][3]

\* the place in the collected list of the first tuple with the pair of d
FirstIndex(dependencies, d) ==
    CHOOSE i \in DOMAIN dependencies :
        /\ <<dependencies[i][1], dependencies[i][2]>> = <<d[1], d[2]>>
        /\ \A j \in 1..(i - 1) : <<dependencies[j][1], dependencies[j][2]>> # <<d[1], d[2]>>

\* C20, amended: the list find_variable_deps returns holds each pair once, holds
\* exactly the pairs the visitor collected, lists them in the order in which the
\* visitor first collected them, and gives each pair the tuple (line and file)
\* the visitor collected first for it
C20_FirstCollectedKept ==
    (result.op = "find_variable_deps" /\ result.raised = "none") =>
        LET out == result.unique_deps
            collected == result.dependencies
        IN /\ \A j, k \in DOMAIN out :
                  <<out[j][1], out[j][2]>> = <<out[k][1], out[k][2]>> => j = k
           /\ Pairs(out) = Pairs(collected)
           /\ \A k \in DOMAIN out :
                  /\ out[k][4] = result.filepath
                  /\ out[k] = collected[FirstIndex(collected, out[k])]
           /\ \A j, k \in DOMAIN out :
                  j < k => FirstIndex(collected, out[j]) < FirstIndex(collected, out[k])

\* a pair was collected on two lines, and another pair after it
C20_Witness ==
    /\ result.op = "find_variable_deps"
    /\ result.raised = "none"
    /\ Len(result.unique_deps) >= 2
    /\ \E i, j \in DOMAIN result.dependencies :
          /\ i < j
          /\ result.dependencies[i][1] = result.dependencies[j][1]
          /\ result.dependencies[i][2] = result.dependencies[j][2]
          /\ result.dependencies[i][3] # result.dependencies[j][3]

\* C21: total_dependencies of find_dependencies(v) is the number of distinct
\* nodes other than v reached from v and all_dependencies lists each of them
\* once; likewise total_affected and affected_variables of find_impact(v) for
\* the nodes that reach v
C21_TotalsCountDistinctNodes ==
    /\ (result.op = "find_dependencies" /\ InSeq(result.variable, nodes)) =>
           LET reached == {u \in Names \ {result.variable} : Reaches(result.variable, u)}
               listed == result.all_dependencies
           IN /\ result.total_dependencies = Cardinality(reached)
              /\ Range(listed) = reached
              /\ \A i, j \in DOMAIN listed : listed[i] = listed[j] => i = j
    /\ (result.op = "find_impact" /\ InSeq(result.variable, nodes)) =>
           LET reaching == {u \in Names \ {result.variable} : Reaches(u, result.variable)}
               listed == result.affected_variables
           IN /\ result.total_affected = Cardinality(reaching)
              /\ Range(listed) = reaching
              /\ \A i, j \in DOMAIN listed : listed[i] = listed[j] => i = j

C23_ClearedBeforePathExamined ==
    /\ pc = "cleared" => (nodes = <<>> /\ edges = <<>>)
    /\ result.op = "load_files" =>
          /\ result.message = "Path not found"
          /\ result.raised = "none"
          /\ nodes = <<>>
          /\ edges = <<>>
          /\ pc = "idle"
          /\ \A f \in Files :
                load_from_file(<<>>, <<>>, f, <<>>) = [nodes |-> nodes, edges |-> edges]

\* a load request has ended on a path that was not found
C23_Witness ==
    /\ result.op = "load_files"
    /\ result.message = "Path not found"
    /\ nodes = <<>>
    /\ edges = <<>>

=============================================================================
